---- MODULE Spec2Model ----
(***************************************************************************)
(* Face-identification backend (Project/backend/backend.py): the embedding *)
(* aggregator, the similarity scorer, the gallery scan and the /register   *)
(* and /login handlers that use them.                                      *)
(*                                                                         *)
(* Numbers.  Embeddings are 2-dimensional vectors in fixed point: a        *)
(* coordinate c stands for c/Unit, so <<800, 600>> is the unit vector      *)
(* (0.8, 0.6).  Similarities, scores, thresholds and training_quality are  *)
(* in the same fixed point (750 stands for 0.75).  Every division rounds   *)
(* down.                                                                   *)
(***************************************************************************)
EXTENDS Integers, Sequences, FiniteSets, TLC

Unit == 1000

\* Python's None: for an object, and for an embedding
None == [none |-> TRUE]
NoFeatures == << >>

(***************************************************************************)
(* Thresholds of EnhancedCNNFaceRecognizer.__init__ and the photo count    *)
(* compare_features_advanced tests.                                        *)
(***************************************************************************)
strict_threshold == 750
multi_photo_threshold == 700
multi_photo_count == 3
min_valid_images == 2

(***************************************************************************)
(* Vector arithmetic (numpy / sklearn).                                    *)
(***************************************************************************)
RECURSIVE SqrtSearch(_, _, _)
SqrtSearch(n, lo, hi) ==
    IF lo = hi THEN lo
    ELSE LET mid == (lo + hi + 1) \div 2
         IN  IF mid * mid <= n THEN SqrtSearch(n, mid, hi)
                               ELSE SqrtSearch(n, lo, mid - 1)

ISqrt(n) == SqrtSearch(n, 0, 2 * Unit)

Dot(a, b) == a[1] * b[1] + a[2] * b[2]

Norm(a) == ISqrt(Dot(a, a))

\* features / np.linalg.norm(features)
Normalize(v) == << (v[1] * Unit) \div Norm(v), (v[2] * Unit) \div Norm(v) >>

RECURSIVE SumVec(_, _)
SumVec(fs, i) ==
    IF i = 0 THEN << 0, 0 >>
    ELSE LET r == SumVec(fs, i - 1)
         IN  << r[1] + fs[i][1], r[2] + fs[i][2] >>

\* np.mean(all_features, axis=0)
MeanVec(fs) ==
    LET s == SumVec(fs, Len(fs))
    IN  << s[1] \div Len(fs), s[2] \div Len(fs) >>

\* sklearn cosine_similarity([a], [b])[0][0]
cosine_similarity(a, b) == (Dot(a, b) * Unit) \div (Norm(a) * Norm(b))

RECURSIVE SumSeq(_, _)
SumSeq(s, i) == IF i = 0 THEN 0 ELSE SumSeq(s, i - 1) + s[i]

RECURSIVE MaxSeq(_, _)
MaxSeq(s, i) ==
    IF i = 1 THEN s[1]
    ELSE LET m == MaxSeq(s, i - 1) IN IF s[i] > m THEN s[i] ELSE m

Larger(a, b) == IF a < b THEN b ELSE a
Min(a, b) == IF a < b THEN a ELSE b

(***************************************************************************)
(* Images.  An image is what detect_faces and extract_features make of it: *)
(* the detections in the order MediaPipe reports them, each with the width *)
(* and height of its bounding box and the embedding extract_features       *)
(* returns for the crop (NoFeatures when preprocessing or inference         *)
(* raises).                                                                *)
(* The embeddings are unit vectors with non-negative coordinates, as the   *)
(* read-out layer is a ReLU layer.                                         *)
(***************************************************************************)
vA == << 1000, 0 >>
vB == << 800, 600 >>
vE == << 280, 960 >>

Embeddings == { vA, vB, vE }

Face(w, h, f) == [w |-> w, h |-> h, feat |-> f]

imgNoFace == [faces |-> << >>]
imgA      == [faces |-> << Face(4, 4, vA) >>]
imgB      == [faces |-> << Face(4, 4, vB) >>]
imgE      == [faces |-> << Face(4, 4, vE) >>]
imgBlur   == [faces |-> << Face(4, 4, NoFeatures) >>]
imgCrowd  == [faces |-> << Face(2, 2, vE), Face(5, 4, vA), Face(4, 5, vB) >>]

\* decode_image: a base64 string that does not decode gives None
ImageNames == { "bad", "noface", "A", "B", "E", "blur", "crowd" }

decode_image(s) ==
    CASE s = "noface" -> imgNoFace
      [] s = "A"      -> imgA
      [] s = "B"      -> imgB
      [] s = "E"      -> imgE
      [] s = "blur"   -> imgBlur
      [] s = "crowd"  -> imgCrowd
      [] OTHER        -> None

\* max(faces, key=lambda x: x['bbox'][2] * x['bbox'][3]): the first of the largest
RECURSIVE LargestFrom(_, _)
LargestFrom(faces, i) ==
    IF i = 1 THEN faces[1]
    ELSE LET m == LargestFrom(faces, i - 1)
         IN  IF faces[i].w * faces[i].h > m.w * m.h THEN faces[i] ELSE m

largest_face(faces) == LargestFrom(faces, Len(faces))

\* detect_faces, the largest face, extract_features: NoFeatures when there is
\* no face or no embedding
ImageFeatures(img) ==
    IF img.faces = << >> THEN NoFeatures ELSE largest_face(img.faces).feat

(***************************************************************************)
(* extract_features_from_multiple_images                                   *)
(***************************************************************************)
AllFeatures(images) ==
    SelectSeq([i \in 1 .. Len(images) |-> ImageFeatures(images[i])],
              LAMBDA f : f # NoFeatures)

\* if len(all_features) < 2
MinValidThree(n) == n < multi_photo_count
MinValidOne(n) == n < 1
MinValid(n) == n < min_valid_images

\* len(all_features) / len(images)
training_quality_inverted(valid, total) == (total * Unit) \div valid
training_quality(valid, total) == (valid * Unit) \div total

extract_features_from_multiple_images(images) ==
    LET all_features == AllFeatures(images)
        valid_images == Len(all_features)
    IN  IF MinValid(Len(all_features))
        THEN [training_data |-> None, valid_images |-> valid_images]
        ELSE [training_data |->
                [ensemble_features   |-> Normalize(MeanVec(all_features)),
                 individual_features |-> all_features,
                 num_photos          |-> Len(all_features),
                 training_quality    |-> training_quality(Len(all_features),
                                                          Len(images))],
              valid_images |-> valid_images]

(***************************************************************************)
(* Pickle files.  A file holds a pickled dict (the multi-photo format, or  *)
(* any other dict), a pickled array (the old single-photo format), bytes   *)
(* pickle.load rejects, or the beginning of a pickle that is being         *)
(* written.  NoFile is the absence of the file.                            *)
(***************************************************************************)
NoFile    == [fmt |-> "absent"]
Garbage   == [fmt |-> "garbage"]
Truncated == [fmt |-> "truncated"]
Dict(d)   == [fmt |-> "dict", data |-> d]
Array(f)  == [fmt |-> "array", data |-> f]

\* pickle.load succeeds
Loadable(file) == file.fmt \in { "dict", "array" }

\* isinstance(stored_data, dict) and 'ensemble_features' in stored_data
IsMultiPhoto(obj) == obj.fmt = "dict" /\ "ensemble_features" \in DOMAIN obj.data

(***************************************************************************)
(* compare_features_advanced / compare_features_simple                     *)
(***************************************************************************)
NoMatch == [is_match |-> FALSE, score |-> 0]

ThresholdFlat(num_photos) == strict_threshold
Threshold(num_photos) ==
    IF num_photos >= multi_photo_count THEN multi_photo_threshold
                                       ELSE strict_threshold

IsMatch(score, threshold) == score >= threshold

compare_features_advanced(stored_data, unknown_features) ==
    IF stored_data = None \/ unknown_features = NoFeatures THEN NoMatch
    ELSE IF ~ ({ "ensemble_features", "individual_features",
                 "training_quality", "num_photos" } \subseteq DOMAIN stored_data)
    THEN NoMatch        \* KeyError, caught
    ELSE
    LET ensemble_similarity ==
            cosine_similarity(stored_data.ensemble_features, unknown_features)
        individual == stored_data.individual_features
        individual_similarities ==
            [i \in 1 .. Len(individual) |->
                cosine_similarity(individual[i], unknown_features)]
        n == Len(individual)
        best_individual_similarity ==
            IF n > 0 THEN MaxSeq(individual_similarities, n) ELSE 0
        avg_individual_similarity ==
            IF n > 0 THEN SumSeq(individual_similarities, n) \div n ELSE 0
        quality_weight == Min(stored_data.training_quality, Unit)
        final_score ==
            (((ensemble_similarity * 4 + best_individual_similarity * 3
               + avg_individual_similarity * 3) \div 10) * quality_weight) \div Unit
        threshold == Threshold(stored_data.num_photos)
    IN  [is_match |-> IsMatch(final_score, threshold), score |-> final_score]

compare_features_simple(stored, unknown_features) ==
    IF stored.fmt # "array" \/ unknown_features = NoFeatures THEN NoMatch   \* raises, caught
    ELSE LET similarity == cosine_similarity(stored.data, unknown_features)
         IN  [is_match |-> IsMatch(similarity, strict_threshold),
              score |-> similarity]

\* the dispatch of recognize_user_enhanced on the loaded object
Compare(obj, unknown_features) ==
    IF IsMultiPhoto(obj) THEN compare_features_advanced(obj.data, unknown_features)
                         ELSE compare_features_simple(obj, unknown_features)

(***************************************************************************)
(* recognize_user_enhanced.  files maps every file name of PICKLES_DIR     *)
(* (without its .pickle suffix) to its content; order is the order in      *)
(* which os.listdir reports the files that exist.  best_match = "" stands  *)
(* for None: both are false in `best_match if best_match else ...`.        *)
(***************************************************************************)
Listing(files) == { k \in DOMAIN files : files[k] # NoFile }

Orders(S) ==
    { o \in [1 .. Cardinality(S) -> S] : \A i, j \in DOMAIN o : i # j => o[i] # o[j] }

ScanStart == [best_match |-> "", best_score |-> 0, opened |-> { }, scored |-> { }]

\* if is_match and score > best_score
ImprovesUnmatched(c, best_score) == c.score > best_score
ImprovesLast(c, best_score) == c.is_match
Improves(c, best_score) == c.is_match /\ c.score > best_score

RECURSIVE ScanLoop(_, _, _, _, _)

\* except Exception: continue
OnLoadErrorStop(files, order, i, unknown, acc) == acc
OnLoadError(files, order, i, unknown, acc) ==
    ScanLoop(files, order, i + 1, unknown, acc)

ScanLoop(files, order, i, unknown, acc) ==
    IF i > Len(order) THEN acc
    ELSE LET file == order[i]
             seen == [acc EXCEPT !.opened = @ \cup { file }]
         IN  IF ~ Loadable(files[file])
             THEN OnLoadError(files, order, i, unknown, seen)
             ELSE LET c == Compare(files[file], unknown)
                      cmp == [seen EXCEPT !.scored = @ \cup { file }]
                  IN  ScanLoop(files, order, i + 1, unknown,
                               IF Improves(c, acc.best_score)
                               THEN [cmp EXCEPT !.best_match = file,
                                                !.best_score = c.score]
                               ELSE cmp)

\* lines 333-360: the scan, once the probe embedding is there
Scan(files, order, unknown) ==
    LET acc == ScanLoop(files, order, 1, unknown, ScanStart)
    IN  [id      |-> IF acc.best_match # "" THEN acc.best_match ELSE "unknown_person",
         score   |-> acc.best_score,
         opened  |-> acc.opened,
         scored  |-> acc.scored]

\* if not faces / if unknown_features is None
NoPersonsFacesOnly(img) == img.faces = << >>
NoPersons(img) == img.faces = << >> \/ ImageFeatures(img) = NoFeatures

NoScan == [id |-> "no_persons_found", score |-> 0, opened |-> { }, scored |-> { }]

recognize_user_enhanced(img, files, order) ==
    IF NoPersons(img) THEN NoScan ELSE Scan(files, order, ImageFeatures(img))

Sentinels == { "no_persons_found", "unknown_person" }

(***************************************************************************)
(* What a call of recognize_user_enhanced met, kept for the properties:    *)
(* the number of detections in the probe, the embedding that came out of   *)
(* it, the files it opened whose pickle was not whole, the object it       *)
(* loaded for the identity it returned, and whether /register wrote it.    *)
(***************************************************************************)
Observed(img, files, order, registered) ==
    LET scan == recognize_user_enhanced(img, files, order)
    IN  [faces      |-> Len(img.faces),
         features   |-> ImageFeatures(img),
         truncated  |-> { k \in scan.opened : files[k] = Truncated },
         data       |-> IF scan.id \in Sentinels THEN None ELSE files[scan.id],
         registered |-> scan.id \in registered]

(***************************************************************************)
(* The state of the server: the files of ./db/pickles and ./db/photos, the *)
(* rows of ./db/users.csv, the lines of ./log.txt, and the requests the    *)
(* workers are handling.  nreq counts the requests accepted so far and     *)
(* stands for datetime.now().  written is the set of pickle files whose    *)
(* present content was dumped by /register.  arg and ret hold the argument *)
(* and the result of a single call of a function of the recognizer.        *)
(***************************************************************************)
VARIABLES pickles, photos, users, log, pc, req, resp, nreq, written, arg, ret

vars == << pickles, photos, users, log, pc, req, resp, nreq, written, arg, ret >>

MaxRequests == 2
MaxImages == 3

Workers == { 1, 2 }

\* str(uuid.uuid4())[:8]: eight hexadecimal digits, which may all be decimal
Uuids == { "1a2b3c4d", "12345678" }
LegacyIds == { "alice" }
FileNames == Uuids \cup LegacyIds

Emails == { "", "a@x.org" }

\* the images of the requests: data.get('images', [])
Uploads ==
    { << >>, << "A" >>, << "A", "A" >>, << "E", "E" >>, << "A", "A", "E" >>,
      << "A", "noface", "A" >>, << "A", "blur" >>, << "noface", "blur", "noface" >>,
      << "bad", "A" >>, << "crowd", "bad" >> }

Row(user_id, email) ==
    [user_id |-> user_id, email |-> email, login_count |-> 0, last_login |-> 0]

\* {user_id}_{i+1}.jpg for every image, and {user_id}.jpg (number 0)
PhotoFiles(user_id, n) == { << user_id, i >> : i \in 0 .. n }

(***************************************************************************)
(* users.csv as pandas reads it back: a user_id column whose every value   *)
(* is a decimal number is read as integers, and no integer equals the      *)
(* string the lookup compares it with.                                     *)
(***************************************************************************)
NumericLooking(user_id) == user_id = "12345678"

IdColumnIsInt(rows) ==
    rows # << >> /\ \A i \in DOMAIN rows : NumericLooking(rows[i].user_id)

RowsOf(rows, user_id) ==
    IF IdColumnIsInt(rows) THEN { }
    ELSE { i \in DOMAIN rows : rows[i].user_id = user_id }

FirstOf(S) == CHOOSE i \in S : \A j \in S : i <= j

get_user_data(rows, user_id) ==
    IF RowsOf(rows, user_id) = { } THEN None
    ELSE rows[FirstOf(RowsOf(rows, user_id))]

email_exists(rows, email) == \E i \in DOMAIN rows : rows[i].email = email

update_login_info(rows, user_id, now) ==
    IF RowsOf(rows, user_id) = { } THEN rows
    ELSE LET i == FirstOf(RowsOf(rows, user_id))
         IN  [rows EXCEPT ![i].last_login = now, ![i].login_count = @ + 1]

save_user_data(rows, user_id, email) == Append(rows, Row(user_id, email))

(***************************************************************************)
(* Requests and responses.                                                 *)
(***************************************************************************)
NoReq == [op |-> "none"]
NoResp == [kind |-> "none"]

Disk == << pickles, photos, users >>

Response(n, op, kind, scan, seen, before, after) ==
    [n |-> n, op |-> op, kind |-> kind, scan |-> scan, seen |-> seen, who |-> None,
     untouched |-> (before = after), user_id |-> "", valid |-> 0, total |-> 0,
     usable |-> 0]

\* the submitted images that decode and give an embedding
Usable(images_data) ==
    Cardinality({ i \in DOMAIN images_data :
                    /\ decode_image(images_data[i]) # None
                    /\ ImageFeatures(decode_image(images_data[i])) # NoFeatures })

\* matched_user_data['name'] if matched_user_data else matched_user_id
Surfaced(rows, matched_user_id) ==
    [id |-> matched_user_id,
     by |-> IF get_user_data(rows, matched_user_id) # None THEN "name" ELSE "user_id"]

Decoded(images_data) == [i \in DOMAIN images_data |-> decode_image(images_data[i])]

\* matched_user_id not in ['no_persons_found', 'unknown_person']
IsDuplicateInverted(matched_user_id) == matched_user_id \in Sentinels
IsDuplicate(matched_user_id) == matched_user_id \notin Sentinels

\* the outcome of the checks of /register up to the duplicate-face guard
Precheck(images_data, email, rows, scan) ==
    IF images_data = << >> THEN "no_images"
    ELSE IF Len(images_data) < 2 THEN "too_few_images"
    ELSE IF email # "" /\ email_exists(rows, email) THEN "email_exists"
    ELSE IF \E i \in DOMAIN images_data : decode_image(images_data[i]) = None
    THEN "invalid_image"
    ELSE IF IsDuplicate(scan.id) THEN "duplicate"
    ELSE "pass"

Idle(p) == pc[p] = "idle" /\ nreq < MaxRequests

Finish(p, r) ==
    /\ resp' = [resp EXCEPT ![p] = r]
    /\ pc' = [pc EXCEPT ![p] = "idle"]
    /\ req' = [req EXCEPT ![p] = NoReq]

(***************************************************************************)
(* /register, lines 567-606: validation, decoding and the duplicate-face   *)
(* guard on the first image.                                               *)
(***************************************************************************)
RegisterBegin(p) ==
    /\ Idle(p)
    /\ \E images_data \in Uploads, email \in Emails, order \in Orders(Listing(pickles)) :
         LET first == decode_image(images_data[1])
             scanned == images_data # << >> /\ Len(images_data) >= 2
                        /\ ~ (email # "" /\ email_exists(users, email))
                        /\ \A i \in DOMAIN images_data : decode_image(images_data[i]) # None
             scan == IF scanned THEN recognize_user_enhanced(first, pickles, order)
                                ELSE None
             seen == IF scanned THEN Observed(first, pickles, order, written)
                                ELSE None
             kind == Precheck(images_data, email, users, scan)
         IN  /\ nreq' = nreq + 1
             /\ IF kind = "pass"
                THEN /\ pc' = [pc EXCEPT ![p] = "reg_extract"]
                     /\ req' = [req EXCEPT ![p] =
                                  [op |-> "register", n |-> nreq + 1,
                                   images |-> Decoded(images_data), email |-> email,
                                   usable |-> Usable(images_data),
                                   scan |-> scan, seen |-> seen, before |-> Disk,
                                   user_id |-> "", training |-> None, valid |-> 0]]
                     /\ UNCHANGED resp
                ELSE Finish(p, [Response(nreq + 1, "register", kind, scan, seen,
                                         Disk, Disk)
                                  EXCEPT !.who = IF kind = "duplicate"
                                                 THEN Surfaced(users, scan.id) ELSE None,
                                         !.total = Len(images_data),
                                         !.usable = Usable(images_data)])
    /\ UNCHANGED << pickles, photos, users, log, written, arg, ret >>

(***************************************************************************)
(* /register, lines 608-619: the identity key, the aggregation, and        *)
(* open(pickle_path, 'wb'), which creates the file empty or empties it.    *)
(***************************************************************************)
RegisterExtract(p) ==
    /\ pc[p] = "reg_extract"
    /\ \E user_id \in Uuids :
         LET r == extract_features_from_multiple_images(req[p].images)
         IN  IF r.training_data = None
             THEN /\ Finish(p, [Response(req[p].n, "register", "insufficient",
                                         req[p].scan, req[p].seen,
                                         req[p].before, Disk)
                                  EXCEPT !.valid = r.valid_images,
                                         !.total = Len(req[p].images),
                                         !.usable = req[p].usable])
                  /\ UNCHANGED pickles
             ELSE /\ pickles' = [pickles EXCEPT ![user_id] = Truncated]
                  /\ req' = [req EXCEPT ![p].user_id = user_id,
                                        ![p].training = r.training_data,
                                        ![p].valid = r.valid_images]
                  /\ pc' = [pc EXCEPT ![p] = "reg_dump"]
                  /\ UNCHANGED resp
    /\ UNCHANGED << photos, users, log, nreq, written, arg, ret >>

(***************************************************************************)
(* /register, lines 620-629: pickle.dump and the end of the with block,    *)
(* after which the file holds the whole profile; then the photos.          *)
(***************************************************************************)
RegisterDump(p) ==
    /\ pc[p] = "reg_dump"
    /\ pickles' = [pickles EXCEPT ![req[p].user_id] = Dict(req[p].training)]
    /\ photos' = photos \cup PhotoFiles(req[p].user_id, Len(req[p].images))
    /\ written' = written \cup { req[p].user_id }
    /\ pc' = [pc EXCEPT ![p] = "reg_save"]
    /\ UNCHANGED << users, log, req, resp, nreq, arg, ret >>

(***************************************************************************)
(* /register, lines 631-667: save_user_data, which may fail; on failure    *)
(* the files of this registration are removed (os.remove of a pickle that  *)
(* is gone raises, and the bare except ends the clean-up).                 *)
(***************************************************************************)
RegisterSave(p) ==
    /\ pc[p] = "reg_save"
    /\ \E saved \in BOOLEAN :
         LET user_id == req[p].user_id
             gone == pickles[user_id] = NoFile
         IN  /\ users' = IF saved THEN save_user_data(users, user_id, req[p].email)
                                  ELSE users
             /\ pickles' = IF saved \/ gone THEN pickles
                           ELSE [pickles EXCEPT ![user_id] = NoFile]
             /\ photos' = IF saved \/ gone THEN photos
                          ELSE photos \ PhotoFiles(user_id, Len(req[p].images))
             /\ written' = IF saved \/ gone THEN written ELSE written \ { user_id }
             /\ Finish(p, [Response(req[p].n, "register",
                                    IF saved THEN "registered" ELSE "save_failed",
                                    req[p].scan, req[p].seen, req[p].before,
                                    << pickles', photos', users' >>)
                             EXCEPT !.user_id = user_id, !.valid = req[p].valid,
                                    !.total = Len(req[p].images),
                                    !.usable = req[p].usable])
    /\ UNCHANGED << log, nreq, arg, ret >>

(***************************************************************************)
(* /login, lines 505-563.                                                  *)
(***************************************************************************)
LoginOutcome(image, scan, rows, files) ==
    IF image = None THEN "invalid_image"
    ELSE IF scan.id \in Sentinels THEN "not_recognized"
    ELSE IF get_user_data(rows, scan.id) = None THEN "user_not_found"
    ELSE IF << scan.id, 1 >> \notin files /\ << scan.id, 0 >> \notin files
    THEN "image_not_found"
    ELSE "logged_in"

Login(p) ==
    /\ Idle(p)
    /\ \E data \in ImageNames, order \in Orders(Listing(pickles)) :
         LET image == decode_image(data)
             scan == IF image = None THEN None
                     ELSE recognize_user_enhanced(image, pickles, order)
             seen == IF image = None THEN None
                     ELSE Observed(image, pickles, order, written)
             kind == LoginOutcome(image, scan, users, photos)
             updates == kind \in { "image_not_found", "logged_in" }
         IN  /\ nreq' = nreq + 1
             /\ users' = IF updates THEN update_login_info(users, scan.id, nreq + 1)
                                    ELSE users
             /\ log' = IF updates THEN Append(log, [user_id |-> scan.id, action |-> "in"])
                                  ELSE log
             /\ Finish(p, [Response(nreq + 1, "login", kind, scan, seen,
                                    Disk, << pickles, photos, users' >>)
                             EXCEPT !.user_id = IF kind = "logged_in" THEN scan.id ELSE ""])
    /\ UNCHANGED << pickles, photos, written, arg, ret >>

(***************************************************************************)
(* The server.  Init: the directories as the module's start-up code leaves *)
(* them, with or without a profile enrolled before this version of the     *)
(* server was installed.                                                   *)
(***************************************************************************)
OddProfile ==
    Dict([ensemble_features |-> vE, individual_features |-> << vE >>,
          num_photos |-> 3, training_quality |-> 1500])

Presets ==
    { [file |-> NoFile, photos |-> { }, users |-> << >>],
      [file |-> Array(vE), photos |-> { << "alice", 0 >> },
       users |-> << Row("alice", "al@x.org") >>],
      [file |-> Garbage, photos |-> { << "alice", 0 >> },
       users |-> << Row("alice", "al@x.org") >>],
      [file |-> OddProfile, photos |-> { },
       users |-> << Row("alice", "al@x.org") >>] }

InitServer(preset) ==
    /\ pickles = [k \in FileNames |-> IF k \in LegacyIds THEN preset.file ELSE NoFile]
    /\ photos = preset.photos
    /\ users = preset.users
    /\ log = << >>
    /\ pc = [p \in Workers |-> "idle"]
    /\ req = [p \in Workers |-> NoReq]
    /\ resp = [p \in Workers |-> NoResp]
    /\ nreq = 0
    /\ written = { }

Init ==
    /\ \E preset \in Presets : InitServer(preset)
    /\ arg = None
    /\ ret = None

Step(p) ==
    \/ RegisterBegin(p)
    \/ RegisterExtract(p)
    \/ RegisterDump(p)
    \/ RegisterSave(p)
    \/ Login(p)

\* one request at a time
Next == Step(1)

Spec == Init /\ [][Next]_vars

\* the workers of the threaded server, interleaved
NextConc == \E p \in Workers : Step(p)

SpecConc == Init /\ [][NextConc]_vars

(***************************************************************************)
(* Single calls of the recognizer's functions, on arguments drawn from     *)
(* bounded sets: every sequence of at most MaxImages decoded images for    *)
(* the aggregator, every stored object below against every probe for the   *)
(* scorer, every directory of such objects in every listing order for the  *)
(* scan.                                                                   *)
(***************************************************************************)
DecodedImages == { decode_image(s) : s \in ImageNames } \ { None }

ImageSeqs == UNION { [1 .. n -> DecodedImages] : n \in 0 .. MaxImages }

TrainedProfiles ==
    { Dict(extract_features_from_multiple_images(images).training_data) :
        images \in { i \in ImageSeqs :
                       extract_features_from_multiple_images(i).training_data # None } }

Trained(names) == Dict(extract_features_from_multiple_images(Decoded(names)).training_data)

StoredObjects ==
    TrainedProfiles
    \cup { Array(v) : v \in Embeddings }
    \cup { OddProfile,
           Dict([ensemble_features |-> vB, individual_features |-> << vB, vB >>,
                 num_photos |-> 2, training_quality |-> 900]),
           Dict([ensemble_features |-> vA]),
           Dict([name |-> "alice"]) }

StoredFiles ==
    { NoFile, Garbage, Truncated, Array(vA), Array(vE), OddProfile,
      Trained(<< "A", "A" >>), Trained(<< "E", "E" >>), Trained(<< "A", "A", "E" >>) }

Calls ==
    { [fn |-> "aggregate", images |-> i] : i \in ImageSeqs }
    \cup { [fn |-> "compare", stored |-> o, unknown |-> u] :
             o \in StoredObjects, u \in Embeddings \cup { NoFeatures } }
    \cup { [fn |-> "scan", files |-> f, order |-> o, unknown |-> u] :
             f \in [FileNames -> StoredFiles], o \in Orders(FileNames), u \in Embeddings }

\* the order os.listdir gives the files that exist: o without the absent ones
ListingIn(files, o) == SelectSeq(o, LAMBDA k : files[k] # NoFile)

InitCall ==
    /\ InitServer(CHOOSE preset \in Presets : preset.file = NoFile)
    /\ arg \in Calls
    /\ ret = None

CallAggregate ==
    /\ arg.fn = "aggregate" /\ ret = None
    /\ ret' = extract_features_from_multiple_images(arg.images)
    /\ UNCHANGED << pickles, photos, users, log, pc, req, resp, nreq, written, arg >>

CallCompare ==
    /\ arg.fn = "compare" /\ ret = None
    /\ ret' = Compare(arg.stored, arg.unknown)
    /\ UNCHANGED << pickles, photos, users, log, pc, req, resp, nreq, written, arg >>

CallScan ==
    /\ arg.fn = "scan" /\ ret = None
    /\ ret' = Scan(arg.files, ListingIn(arg.files, arg.order), arg.unknown)
    /\ UNCHANGED << pickles, photos, users, log, pc, req, resp, nreq, written, arg >>

NextCall == CallAggregate \/ CallCompare \/ CallScan

SpecCall == InitCall /\ [][NextCall]_vars

(***************************************************************************)
(* Properties of single calls (SpecCall).                                  *)
(***************************************************************************)
Called(fn) == arg.fn = fn /\ ret # None

\* the stored profiles of a scan call that load and that the scorer matches
Matching(files, unknown) ==
    { k \in DOMAIN files : Loadable(files[k]) /\ Compare(files[k], unknown).is_match }

ScoreOf(files, unknown, k) == Compare(files[k], unknown).score

\* C1: the scan returns a profile the scorer matches whose score is the largest
\* among the matched profiles, and 'unknown_person' exactly when no loadable
\* profile is matched.
ScanReturnsBestMatch ==
    Called("scan") =>
        LET matching == Matching(arg.files, arg.unknown)
        IN  /\ (ret.id = "unknown_person") <=> (matching = { })
            /\ ret.id # "unknown_person" =>
                 /\ ret.id \in matching
                 /\ ret.score = ScoreOf(arg.files, arg.unknown, ret.id)
                 /\ \A k \in matching : ScoreOf(arg.files, arg.unknown, k) <= ret.score

\* a scan over two matched profiles of different scores, and an unmatched one
ScanChoseAmongMatches ==
    /\ Called("scan")
    /\ \E k \in Matching(arg.files, arg.unknown) :
         ScoreOf(arg.files, arg.unknown, k) < ret.score
    /\ \E k \in DOMAIN arg.files :
         /\ Loadable(arg.files[k])
         /\ k \notin Matching(arg.files, arg.unknown)
         /\ ScoreOf(arg.files, arg.unknown, k) > 0

\* the images of an aggregation that have a face whose embedding was extracted
UsableImages(images) ==
    { i \in DOMAIN images :
        /\ images[i].faces # << >>
        /\ largest_face(images[i].faces).feat # NoFeatures }

\* C3: the aggregator returns no profile for 0 or 1 usable images; for 2 or more
\* it returns a profile whose num_photos is the number of usable images and the
\* length of individual_features; valid_images is the usable count in both cases.
AggregationNeedsTwoUsable ==
    Called("aggregate") =>
        LET usable == Cardinality(UsableImages(arg.images))
        IN  /\ ret.valid_images = usable
            /\ usable < 2 => ret.training_data = None
            /\ usable >= 2 =>
                 /\ ret.training_data # None
                 /\ ret.training_data.num_photos = usable
                 /\ Len(ret.training_data.individual_features) = usable

\* an aggregation of two usable images with a skipped one among the submitted
AggregatedWithSkippedImage ==
    /\ Called("aggregate")
    /\ Cardinality(UsableImages(arg.images)) = 2
    /\ Len(arg.images) = 3
    /\ ret.training_data # None
    /\ ret.training_data.num_photos = 2

\* the threshold the claim names for a stored object
ClaimedThreshold(obj) ==
    IF IsMultiPhoto(obj) /\ "num_photos" \in DOMAIN obj.data /\ obj.data.num_photos >= 3
    THEN 700 ELSE 750

\* C5: a multi-photo profile of 3 or more photos is scored against 0.70, one of
\* fewer photos and a legacy profile against 0.75, and is_match is true exactly
\* when the score is at least that threshold.
DynamicThreshold ==
    Called("compare") => (ret.is_match <=> ret.score >= ClaimedThreshold(arg.stored))

\* a 3-photo profile matched with a score between the two thresholds, which a
\* 2-photo profile would not be
MatchedBetweenThresholds ==
    /\ Called("compare")
    /\ IsMultiPhoto(arg.stored)
    /\ "num_photos" \in DOMAIN arg.stored.data
    /\ arg.stored.data.num_photos = 3
    /\ ret.score >= 700 /\ ret.score < 750
    /\ ret.is_match

\* the directory of a scan call without the files that do not load
WithoutCorrupt(files) ==
    [k \in DOMAIN files |-> IF Loadable(files[k]) THEN files[k] ELSE NoFile]

\* C7: a profile that does not load is skipped, every other profile is scored,
\* and the scan returns what it returns on the gallery without the corrupt files.
ScanSkipsCorrupt ==
    Called("scan") =>
        LET clean == WithoutCorrupt(arg.files)
            rest == Scan(clean, ListingIn(clean, arg.order), arg.unknown)
        IN  /\ ret.id = rest.id
            /\ ret.score = rest.score
            /\ ret.scored = { k \in DOMAIN arg.files : Loadable(arg.files[k]) }
            /\ ret.id \in DOMAIN arg.files \cup { "unknown_person" }

\* a scan that met a corrupt file first and returned the match listed after it
MatchedAfterCorruptFile ==
    /\ Called("scan")
    /\ ~ Loadable(arg.files[ListingIn(arg.files, arg.order)[1]])
    /\ arg.files[ListingIn(arg.files, arg.order)[1]] # NoFile
    /\ ret.id \in DOMAIN arg.files

(***************************************************************************)
(* Properties of the server handling one request at a time (Spec).         *)
(***************************************************************************)
Answered(p, op) == resp[p].kind # "none" /\ resp[p].op = op

\* the response of p is that of a request in which a recognition ran
Recognized(p) == resp[p].kind # "none" /\ resp[p].scan # None

\* the response of p is that of the last request, a login whose scan ran: the
\* gallery is as the scan found it
JustScanned(p) ==
    /\ Answered(p, "login") /\ Recognized(p)
    /\ resp[p].scan.id # "no_persons_found"
    /\ resp[p].n = nreq /\ pc[p] = "idle"

\* the results of that scan in every listing order
Rescans(p) ==
    { Scan(pickles, o, resp[p].seen.features) : o \in Orders(Listing(pickles)) }

\* the matched profiles that have the largest score
Best(files, unknown) ==
    { k \in Matching(files, unknown) :
        \A j \in Matching(files, unknown) :
            ScoreOf(files, unknown, j) <= ScoreOf(files, unknown, k) }

\* C8 as claimed: on an unchanged gallery every scan returns the same identity
\* and score, in whatever order the files are listed.
ScanOrderIndependent ==
    \A p \in Workers :
        JustScanned(p) =>
            \A r \in Rescans(p) : r.id = resp[p].scan.id /\ r.score = resp[p].scan.score

\* C8 as amended: on an unchanged gallery every scan returns the same score in
\* whatever order the files are listed, and the same identity unless two matched
\* profiles share the largest score.
ScanScoreOrderIndependent ==
    \A p \in Workers :
        JustScanned(p) =>
            /\ \A r \in Rescans(p) : r.score = resp[p].scan.score
            /\ Cardinality(Best(pickles, resp[p].seen.features)) <= 1 =>
                 \A r \in Rescans(p) : r.id = resp[p].scan.id

\* a login whose scan matched two profiles of different scores
ScannedTwoMatches ==
    \E p \in Workers :
        /\ JustScanned(p)
        /\ Cardinality(Matching(pickles, resp[p].seen.features)) = 2
        /\ Cardinality(Best(pickles, resp[p].seen.features)) = 1

\* C2: a registration whose first photo the scan recognizes as an identity is
\* rejected as a duplicate of that identity, no file or user row is added, and
\* no registration goes on past the guard with a recognized first photo.
DuplicateFaceRejected ==
    \A p \in Workers :
        /\ (Answered(p, "register") /\ Recognized(p) /\ resp[p].scan.id \notin Sentinels) =>
             /\ resp[p].kind = "duplicate"
             /\ resp[p].who.id = resp[p].scan.id
             /\ resp[p].untouched
        /\ req[p].op = "register" => req[p].scan.id \in Sentinels

\* a registration rejected as a duplicate of an identity enrolled by /register
RejectedDuplicate ==
    \E p \in Workers :
        /\ Answered(p, "register")
        /\ resp[p].kind = "duplicate"
        /\ resp[p].seen.registered
        /\ resp[p].who.id \in Uuids

InsufficientKinds == { "no_images", "too_few_images", "insufficient" }

\* C4 as claimed: a registration with fewer than 2 usable images is rejected
\* with an insufficient-samples outcome and changes no file and no user row.
InsufficientSamplesRejected ==
    \A p \in Workers :
        (Answered(p, "register") /\ resp[p].usable < 2) =>
            /\ resp[p].kind \in InsufficientKinds
            /\ resp[p].untouched

\* C4 as amended: a registration with fewer than 2 usable images is rejected and
\* changes no file and no user row; the outcome is insufficient-samples unless
\* an earlier check rejects it (existing email, undecodable image, duplicate
\* face on the first photo).
FewUsableImagesRejected ==
    \A p \in Workers :
        /\ (Answered(p, "register") /\ resp[p].usable < 2) =>
             /\ resp[p].kind \in InsufficientKinds
                                 \cup { "email_exists", "invalid_image", "duplicate" }
             /\ resp[p].untouched
        /\ pc[p] \in { "reg_dump", "reg_save" } => req[p].usable >= 2

\* a registration of two images, one of them usable, rejected by the aggregator
RejectedOneUsableOfTwo ==
    \E p \in Workers :
        /\ Answered(p, "register")
        /\ resp[p].kind = "insufficient"
        /\ resp[p].usable = 1 /\ resp[p].valid = 1 /\ resp[p].total = 2
        /\ Listing(pickles) # { }

\* C6 as claimed: recognition returns 'no_persons_found' exactly when detection
\* finds no region, and then no profile is opened or scored and a login changes
\* nothing.
NoFaceOnlyWithoutDetection ==
    \A p \in Workers :
        Recognized(p) =>
            /\ (resp[p].scan.id = "no_persons_found") <=> (resp[p].seen.faces = 0)
            /\ resp[p].seen.faces = 0 =>
                 /\ resp[p].scan.opened = { } /\ resp[p].scan.scored = { }
                 /\ resp[p].op = "login" => resp[p].untouched

\* C6 as amended: recognition returns 'no_persons_found' exactly when detection
\* finds no region or the largest region gives no embedding; in both cases no
\* profile is opened or scored and a login changes nothing.
NoFaceOutcome ==
    \A p \in Workers :
        Recognized(p) =>
            /\ (resp[p].scan.id = "no_persons_found")
                 <=> (resp[p].seen.faces = 0 \/ resp[p].seen.features = NoFeatures)
            /\ resp[p].scan.id = "no_persons_found" =>
                 /\ resp[p].scan.opened = { } /\ resp[p].scan.scored = { }
                 /\ resp[p].op = "login" => resp[p].untouched

\* a login with an image without a face, with profiles in the gallery
LoginWithoutFace ==
    \E p \in Workers :
        /\ Answered(p, "login") /\ Recognized(p)
        /\ resp[p].seen.faces = 0
        /\ resp[p].scan.id = "no_persons_found"
        /\ resp[p].n = nreq
        /\ \E k \in Uuids : Loadable(pickles[k])

\* the invariants of the data model for a stored object
WellFormed(obj) ==
    IsMultiPhoto(obj) =>
        /\ obj.data.num_photos >= 2
        /\ obj.data.num_photos = Len(obj.data.individual_features)
        /\ obj.data.training_quality > 0
        /\ obj.data.training_quality <= Unit

\* C10 as claimed: the stored profile of every identity a recognition returns
\* satisfies the invariants of the data model.
MatchImpliesValidProfile ==
    \A p \in Workers :
        (Recognized(p) /\ resp[p].scan.id \notin Sentinels) => WellFormed(resp[p].seen.data)

\* C10 as amended: the stored profile of every identity a recognition returns
\* satisfies the invariants of the data model if /register wrote it.
MatchImpliesValidEnrolledProfile ==
    \A p \in Workers :
        (Recognized(p) /\ resp[p].scan.id \notin Sentinels /\ resp[p].seen.registered)
            => WellFormed(resp[p].seen.data)

\* a login that matched a multi-photo profile /register wrote
MatchedEnrolledProfile ==
    \E p \in Workers :
        /\ Answered(p, "login")
        /\ resp[p].kind = "logged_in"
        /\ resp[p].seen.registered
        /\ IsMultiPhoto(resp[p].seen.data)

(***************************************************************************)
(* Properties of the server with interleaved workers (SpecConc).           *)
(***************************************************************************)
\* C9: no scan opens a profile file that holds less than the whole profile.
ScanNeverSeesPartialProfile ==
    \A p \in Workers :
        /\ Recognized(p) => resp[p].seen.truncated = { }
        /\ req[p].op = "register" => req[p].seen.truncated = { }

(***************************************************************************)
(* Enrollment and the gallery's keys.                                      *)
(***************************************************************************)
\* the step of worker p that answers a registration with success=True
Registers(p) == pc[p] = "reg_save" /\ resp'[p].kind = "registered"

\* the gallery a request found, and the keys that held a profile in it
GalleryBefore(p) == req[p].before[1]

\* C11: a successful registration adds exactly one new key to the gallery
\* and leaves the profile of every key the gallery held before the request
\* as it was, whatever key uuid4 produced.
EnrollmentAddsOneNewKey ==
    [][\A p \in Workers :
         Registers(p) =>
           /\ req[p].user_id \notin Listing(GalleryBefore(p))
           /\ Listing(pickles') = Listing(GalleryBefore(p)) \cup { req[p].user_id }
           /\ \A k \in Listing(GalleryBefore(p)) : pickles'[k] = GalleryBefore(p)[k]]_vars

\* the same, for the registrations whose key the gallery did not hold
EnrollmentWithFreshKeyAddsOneNewKey ==
    [][\A p \in Workers :
         (Registers(p) /\ req[p].user_id \notin Listing(GalleryBefore(p))) =>
           /\ Listing(pickles') = Listing(GalleryBefore(p)) \cup { req[p].user_id }
           /\ \A k \in Listing(GalleryBefore(p)) : pickles'[k] = GalleryBefore(p)[k]]_vars

\* a second registration succeeded beside an enrolled profile
RegisteredSecondIdentity ==
    \E k \in Uuids :
        /\ resp[1].kind = "registered" /\ resp[1].user_id # k
        /\ pickles[k] # NoFile /\ k \in written

(***************************************************************************)
(* Properties of the threaded server (SpecConc), continued.                *)
(***************************************************************************)
\* the first photo of p's registration matches the profile q's registration
\* stored
SameFaceAs(p, q) ==
    Compare(pickles[resp[q].user_id], resp[p].seen.features).is_match

\* both workers answered a registration with success=True, under two keys,
\* for photos of one face
EnrolledTwice ==
    /\ resp[1].kind = "registered" /\ resp[2].kind = "registered"
    /\ resp[1].user_id # resp[2].user_id
    /\ SameFaceAs(1, 2) /\ SameFaceAs(2, 1)

\* C12: of two registrations of the same face, in any interleaving, at most
\* one adds a profile: one face is never stored under two identities.
NoDoubleEnrollment == ~ EnrolledTwice

(***************************************************************************)
(* The gallery and users.csv (Spec).                                       *)
(***************************************************************************)
NoRegistrationInProgress == \A p \in Workers : pc[p] = "idle"

\* users.csv holds a row written for user_id
HasRow(user_id) == \E i \in DOMAIN users : users[i].user_id = user_id

\* every identity with a profile has a row in users.csv
ProfilesHaveRows ==
    NoRegistrationInProgress => \A k \in Listing(pickles) : HasRow(k)

\* the scan of p's login returned an identity
LoginMatched(p) ==
    Answered(p, "login") /\ Recognized(p) /\ resp[p].scan.id \notin Sentinels

\* C13: when no registration is in progress every identity with a profile
\* has a user record, also after a registration whose save_user_data
\* failed, and so a login whose scan matches an identity finds its record.
MatchedLoginFindsUserRecord ==
    /\ ProfilesHaveRows
    /\ \A p \in Workers : LoginMatched(p) => resp[p].kind # "user_not_found"

\* a registration whose save_user_data failed has been cleaned up
SaveFailedCleanedUp ==
    /\ resp[1].kind = "save_failed" /\ pc[1] = "idle"
    /\ pickles[resp[1].user_id] = NoFile

(***************************************************************************)
(* The effects of /login (Spec).                                           *)
(***************************************************************************)
\* the step in which worker p answers a login
LoginStep(p) ==
    /\ nreq' = nreq + 1
    /\ resp'[p].kind # "none" /\ resp'[p].op = "login" /\ resp'[p].n = nreq'

\* success=True in the response
Succeeded(r) == r.kind \in { "logged_in", "registered" }

\* one row of user_id has its login_count raised by 1 and its last_login
\* set; every other field of users.csv is as before
CountedOnce(user_id) ==
    /\ Len(users') = Len(users)
    /\ \E i \in DOMAIN users :
         /\ users[i].user_id = user_id
         /\ users'[i].login_count = users[i].login_count + 1
         /\ users' = [users EXCEPT ![i].login_count = @ + 1,
                                   ![i].last_login = users'[i].last_login]

LoggedIn(user_id) == log' = Append(log, [user_id |-> user_id, action |-> "in"])

\* C14: a login answered success=False leaves login_count, last_login and
\* the log as they were; a login answered success=True raises the user's
\* login_count by exactly 1 and appends one 'in' line.
LoginFailureHasNoEffect ==
    [][\A p \in Workers :
         LoginStep(p) =>
           IF Succeeded(resp'[p])
           THEN CountedOnce(resp'[p].user_id) /\ LoggedIn(resp'[p].user_id)
           ELSE users' = users /\ log' = log]_vars

\* the same, for the failures answered before update_login_info is reached
LoginRefusedEarlyHasNoEffect ==
    [][\A p \in Workers :
         LoginStep(p) =>
           IF Succeeded(resp'[p])
           THEN CountedOnce(resp'[p].user_id) /\ LoggedIn(resp'[p].user_id)
           ELSE resp'[p].kind # "image_not_found" => users' = users /\ log' = log]_vars

(***************************************************************************)
(* The training quality in the advanced score (SpecCall).                  *)
(***************************************************************************)
\* the call scored a probe against a profile in the multi-photo format
ScoredMultiPhoto ==
    /\ Called("compare")
    /\ IsMultiPhoto(arg.stored)
    /\ { "individual_features", "training_quality", "num_photos" }
           \subseteq DOMAIN arg.stored.data
    /\ arg.unknown # NoFeatures

\* the similarities the score is made of, each within [-1, 1]
SimilaritiesOf(data, unknown) ==
    { cosine_similarity(data.ensemble_features, unknown) }
    \cup { cosine_similarity(data.individual_features[i], unknown) :
             i \in DOMAIN data.individual_features }

SimilaritiesInRange ==
    \A s \in SimilaritiesOf(arg.stored.data, arg.unknown) : s >= -Unit /\ s <= Unit

\* C15: the advanced score of a multi-photo profile never exceeds its
\* training quality; a profile whose training quality is below its
\* threshold is therefore not matched by any probe.
QualityBoundsScore ==
    (ScoredMultiPhoto /\ SimilaritiesInRange) =>
        /\ ret.score <= arg.stored.data.training_quality
        /\ arg.stored.data.training_quality < ClaimedThreshold(arg.stored)
             => ~ ret.is_match

\* a profile the aggregator built from 2 usable images of 3, scored against
\* one of its own embeddings, is not matched
EnrolledProfileNotMatchable ==
    /\ ScoredMultiPhoto /\ SimilaritiesInRange
    /\ arg.stored \in TrainedProfiles
    /\ arg.stored.data.num_photos = 2
    /\ arg.stored.data.training_quality < ClaimedThreshold(arg.stored)
    /\ arg.unknown = arg.stored.data.individual_features[1]
    /\ cosine_similarity(arg.stored.data.ensemble_features, arg.unknown) = Unit
    /\ ~ ret.is_match

====
